---- MODULE Spec2Model ----
(***************************************************************************)
(* A model of the component registry of bots-node-sdk                      *)
(* (dist/modules/component/registry.js): the capability test, the module   *)
(* resolver, the filesystem scan, the construction from a list of items,   *)
(* registration, merge and the lookups; and of Middleware.init             *)
(* (src/middleware/index.ts).                                              *)
(*                                                                         *)
(* Strings that the code inspects (paths, file names) are sequences of     *)
(* one-character strings, so that indexOf, extname, basename and join are  *)
(* computed as the code computes them.  JavaScript values are records.     *)
(* A Map is a sequence of <<key, value>> pairs in insertion order.         *)
(*                                                                         *)
(* Components are taken to be well behaved: a constructor and metadata()   *)
(* return normally, and metadata().name is a string.                       *)
(***************************************************************************)
EXTENDS Integers, Sequences, FiniteSets, TLC

VARIABLES
    fs,        \* the filesystem: absolute path -> entry
    regs,      \* the heap of ComponentRegistry objects: id -> registry
    descs,     \* the descriptor object each stored-descriptor component keeps
    log,       \* what the last operation sent to the logger
    ret,       \* the last operation: its name, arguments, result, fault
    held,      \* the array a caller holds from getMetadata()
    arg,       \* the input of a pure function under test
    engine,    \* which Array.prototype.sort the runtime has
    nops       \* how many constructions and mutations have been performed

vars == <<fs, regs, descs, log, ret, held, arg, engine, nops>>

(***************************************************************************)
(* Sequences and Maps                                                      *)
(***************************************************************************)
\* a value bound to a name for the expression that follows (const x = ..)
With(value, Body(_)) == Body(value)

Range(s) == {s[i] : i \in 1..Len(s)}

\* Map.prototype.has
MapHas(m, k) == \E i \in 1..Len(m) : m[i][1] = k

\* Map.prototype.get: the value, or undefined
MapGet(m, k, undef) ==
    IF MapHas(m, k) THEN m[CHOOSE i \in 1..Len(m) : m[i][1] = k][2] ELSE undef

\* Map.prototype.set: an existing key keeps its place, a new key is appended
MapSet(m, k, v) ==
    IF MapHas(m, k)
    THEN [i \in 1..Len(m) |-> IF m[i][1] = k THEN <<k, v>> ELSE m[i]]
    ELSE Append(m, <<k, v>>)

MapKeys(m) == {m[i][1] : i \in 1..Len(m)}
MapValues(m) == [i \in 1..Len(m) |-> m[i][2]]

(***************************************************************************)
(* JavaScript values                                                       *)
(***************************************************************************)
\* A value: its typeof, whether it is null, its own enumerable properties
\* (in definition order), and for a function whether it has a prototype
\* property and the members of that prototype.  id tells objects apart.
Val(id, t, nul, own, hasProto, proto) ==
    [id |-> id, t |-> t, nul |-> nul, own |-> own, hasProto |-> hasProto, proto |-> proto]

Undefined == Val("undefined", "undefined", FALSE, <<>>, FALSE, <<>>)
Null      == Val("null", "object", TRUE, <<>>, FALSE, <<>>)
Str       == Val("str", "string", FALSE, <<>>, FALSE, <<>>)
Num       == Val("num", "number", FALSE, <<>>, FALSE, <<>>)
\* function f() {}: has a prototype object with no members of interest
FnPlain   == Val("fn", "function", FALSE, <<>>, TRUE, <<>>)
\* () => {}: an arrow function has no prototype property
Arrow     == Val("arrow", "function", FALSE, <<>>, FALSE, <<>>)

\* typeof v
TypeOf(v) == v.t

\* definitions.isType: typeof v === 'function'
isType(v) == v.t = "function"

\* own property lookup in a property list; undefined when absent
Prop(props, key) == MapGet(props, key, Undefined)

\* The result of evaluating an expression: a value, or a thrown TypeError
Ok(v)  == [threw |-> FALSE, value |-> v]
Threw == [threw |-> TRUE, value |-> FALSE]

\* ref.key: reading a member of null or undefined throws TypeError
Member(ref, key) ==
    IF ref.nul \/ ref.t = "undefined" THEN Threw
    ELSE Ok(Prop(ref.own, key))

\* ref.prototype.key for a function ref: the prototype of an arrow function
\* is undefined, so the member read throws TypeError
ProtoMember(ref, key) ==
    IF ref.hasProto THEN Ok(Prop(ref.proto, key)) ELSE Threw

\* isComponent(ref), registry.js:299-302, with JavaScript's left-to-right,
\* short-circuit evaluation.  The arguments of isType are evaluated before
\* the call.
isComponentClassUsage(ref) ==
    IF ~isType(ref) THEN Ok(FALSE)
    ELSE LET m == ProtoMember(ref, "metadata")
         IN  IF m.threw THEN Threw
             ELSE IF ~isType(m.value) THEN Ok(FALSE)
             ELSE LET i == ProtoMember(ref, "invoke")
                  IN  IF i.threw THEN Threw ELSE Ok(isType(i.value))

isComponentLegacy(ref) ==
    IF TypeOf(ref) # "object" THEN Ok(FALSE)
    ELSE LET m == Member(ref, "metadata")
         IN  IF m.threw THEN Threw
             ELSE IF ~isType(m.value) THEN Ok(FALSE)
             ELSE LET i == Member(ref, "invoke")
                  IN  IF i.threw THEN Threw ELSE Ok(isType(i.value))

isComponent(ref) ==
    LET c == isComponentClassUsage(ref)
    IN  IF c.threw THEN Threw
        ELSE IF c.value THEN Ok(TRUE)
        ELSE isComponentLegacy(ref)

(***************************************************************************)
(* The values the capability test is tried on                              *)
(***************************************************************************)
\* what a metadata or invoke member may be
MemberKinds == {"absent", "fn", "arrow", "str", "null"}

KindVal(k) ==
    CASE k = "fn" -> FnPlain
      [] k = "arrow" -> Arrow
      [] k = "str" -> Str
      [] k = "null" -> Null
      [] OTHER -> Undefined

\* the property list {metadata: .., invoke: ..} with absent members left out
Members(mk, ik) ==
    (IF mk = "absent" THEN <<>> ELSE << <<"metadata", KindVal(mk)>> >>)
    \o (IF ik = "absent" THEN <<>> ELSE << <<"invoke", KindVal(ik)>> >>)

\* function C() {}; C.prototype.metadata = ..; C.prototype.invoke = ..
ClassVal(id, mk, ik) == Val(id, "function", FALSE, <<>>, TRUE, Members(mk, ik))
\* function C() {}; C.metadata = ..; C.invoke = ..  (static members only)
StaticVal(id, mk, ik) == Val(id, "function", FALSE, Members(mk, ik), TRUE, <<>>)
\* { metadata: .., invoke: .. }
ObjectVal(id, mk, ik) == Val(id, "object", FALSE, Members(mk, ik), FALSE, <<>>)

CapValues ==
    {Undefined, Null, Str, Num, FnPlain, Arrow}
    \cup {ClassVal("C", mk, ik) : mk \in MemberKinds, ik \in MemberKinds}
    \cup {StaticVal("S", mk, ik) : mk \in MemberKinds, ik \in MemberKinds}
    \cup {ObjectVal("O", mk, ik) : mk \in MemberKinds, ik \in MemberKinds}

(***************************************************************************)
(* Path strings (posix), as sequences of one-character strings             *)
(***************************************************************************)
\* String.prototype.indexOf: the first 0-based position of needle, or -1
IndexOf(hay, needle) ==
    LET hits == {i \in 0..(Len(hay) - Len(needle)) :
                    SubSeq(hay, i + 1, i + Len(needle)) = needle}
    IN  IF hits = {} THEN -1 ELSE CHOOSE i \in hits : \A j \in hits : i <= j

RECURSIVE SplitFrom(_, _, _)
\* p.split("/") from position i on (empty segments included); cur is the
\* segment being read
SplitFrom(p, i, cur) ==
    IF i > Len(p) THEN <<cur>>
    ELSE IF p[i] = "/" THEN <<cur>> \o SplitFrom(p, i + 1, <<>>)
    ELSE SplitFrom(p, i + 1, Append(cur, p[i]))

RECURSIVE Segments(_, _)
\* path normalisation: empty and "." segments dropped, ".." pops
Segments(todo, done) ==
    IF todo = <<>> THEN done
    ELSE LET s == Head(todo)
         IN  IF s = <<>> \/ s = <<".">> THEN Segments(Tail(todo), done)
             ELSE IF s = <<".", ".">>
                  THEN Segments(Tail(todo),
                                IF done = <<>> THEN <<>> ELSE SubSeq(done, 1, Len(done) - 1))
                  ELSE Segments(Tail(todo), Append(done, s))

RECURSIVE Glue(_)
Glue(segs) == IF segs = <<>> THEN <<>> ELSE <<"/">> \o Head(segs) \o Glue(Tail(segs))

IsAbsolute(p) == p # <<>> /\ p[1] = "/"

\* the path of the segments left: "/" for an absolute path and "." for a
\* relative one when none is left
Rejoin(absolute, segs) ==
    IF segs = <<>> THEN (IF absolute THEN <<"/">> ELSE <<".">>)
    ELSE IF absolute THEN Glue(segs) ELSE Tail(Glue(segs))

\* path.normalize for the paths met here (no trailing separator)
Normalize(p) == Rejoin(IsAbsolute(p), Segments(SplitFrom(p, 1, <<>>), <<>>))

\* path.join(a, b)
PathJoin(a, b) ==
    Normalize(IF a = <<>> THEN b ELSE IF b = <<>> THEN a ELSE a \o <<"/">> \o b)

\* process.cwd()
ProcessCwd == <<"/", "w">>

\* path.resolve(p): an absolute path is normalised, a relative one is taken
\* from process.cwd()
PathResolve(p) == IF IsAbsolute(p) THEN Normalize(p) ELSE PathJoin(ProcessCwd, p)

\* path.basename(p)
Basename(p) == LET segs == Segments(SplitFrom(p, 1, <<>>), <<>>)
               IN  IF segs = <<>> THEN <<>> ELSE segs[Len(segs)]

\* path.extname(p): from the last "." of the base name, "" when there is none
\* or when the only "." leads the base name
Extname(p) ==
    LET b == Basename(p)
        dots == {i \in 1..Len(b) : b[i] = "."}
        last == CHOOSE i \in dots : \A j \in dots : j <= i
    IN  IF dots = {} THEN <<>>
        ELSE IF last = 1 THEN <<>>
        ELSE SubSeq(b, last, Len(b))

\* fullPath(cwd, dirname), registry.js:281-283: ~x is falsy only for x = -1
fullPath(cwd, dirname) ==
    IF IndexOf(dirname, cwd) # -1 THEN dirname ELSE PathJoin(cwd, dirname)

(***************************************************************************)
(* Components                                                              *)
(***************************************************************************)
\* The component references of the model: three classes and one pre-built
\* (legacy) object.  A and B report the same name.
CompIds == {"A", "B", "C", "D"}

\* the descriptor metadata() reports: a name and a nested array
InitialDescs ==
    [c \in CompIds |->
        [name |-> CASE c = "A" -> "x" [] c = "B" -> "x" [] c = "C" -> "y" [] OTHER -> "z",
         supportedActions |-> <<"ok">>]]

\* B and D keep one descriptor object and return it from every metadata()
\* call; A and C build a new descriptor on every call
KeepsDescriptor(c) == c \in {"B", "D"}

\* a class decorated as a component, and a pre-built component object
ClassRef(c)  == ClassVal(c, "fn", "fn")
LegacyRef(c) == ObjectVal(c, "fn", "fn")

\* a component instance held by a registry
Inst(c) == [inst |-> c]
NoComponent == [inst |-> "undefined"]

\* makeCtor(type), registry.js:289-293: the type itself, or a wrapper whose
\* construction returns the pre-built object
makeCtor(type) == IF isType(type) THEN [wrap |-> FALSE, of |-> type]
                  ELSE [wrap |-> TRUE, of |-> type]

\* __componentFactory(mod), registry.js:160-163: new ctor()
componentFactory(mod) == Inst(makeCtor(mod).of.id)

\* component.metadata(): the kept descriptor object itself, or a new object.
\* top and nested tell whether the returned object, and the array in its
\* supportedActions, are the very objects the component keeps.
metadata(ds, comp) ==
    [src |-> comp.inst,
     name |-> ds[comp.inst].name,
     supportedActions |-> ds[comp.inst].supportedActions,
     top |-> KeepsDescriptor(comp.inst),
     nested |-> KeepsDescriptor(comp.inst)]

(***************************************************************************)
(* The logger                                                              *)
(***************************************************************************)
LogEntry(level, msg, name, inst, path) ==
    [level |-> level, msg |-> msg, name |-> name, inst |-> inst, path |-> path]

(***************************************************************************)
(* The filesystem                                                          *)
(***************************************************************************)
NoModule == [throws |-> FALSE, exports |-> Undefined]
File(mod)  == [kind |-> "file", names |-> <<>>, mod |-> mod]
Dir(names) == [kind |-> "dir", names |-> names, mod |-> NoModule]

\* The tree is keyed by resolved absolute paths; the fs functions take a
\* relative path from process.cwd().
Located(f, p) == IF p \in DOMAIN f THEN p ELSE PathResolve(p)
\* fs.existsSync(p)
existsSync(f, p) == Located(f, p) \in DOMAIN f
\* fs.statSync(p).isDirectory() and .isFile(), for a path that exists
isDirectory(f, p) == f[Located(f, p)].kind = "dir"
isFile(f, p) == f[Located(f, p)].kind = "file"
\* fs.readdirSync(dir): the names in the order the system lists them
readdirSync(f, dir) == f[Located(f, dir)].names
\* require(filePath): the module's exports, or a fault raised while loading.
\* A path that is not absolute is not looked up from process.cwd() (it is
\* searched for relative to registry.js or in node_modules): the module is
\* not found.
require(f, p) == IF IsAbsolute(p) THEN f[Located(f, p)].mod
                 ELSE [throws |-> TRUE, exports |-> Undefined]

\* a module whose initialisation raises an error, and modules by their exports
Throws == [throws |-> TRUE, exports |-> Undefined]
Exports(v) == [throws |-> FALSE, exports |-> v]

(***************************************************************************)
(* ComponentRegistry                                                       *)
(***************************************************************************)
\* no registry: the null parent, and the undefined result of a lookup
NoRegistry == 0

\* constructor(_parent), registry.js:13-19
NewRegistry(parent) == [parent |-> parent, collections |-> <<>>, components |-> <<>>]

\* The state an operation works on and what it yields: the heap, the log
\* entries written, whether a fault is propagating, and the value returned.
\* loads records the paths handed to require, in order.
Step(rs, lg, out) ==
    [regs |-> rs, log |-> lg, threw |-> FALSE, out |-> out, loads |-> <<>>]
Fault(st) == [st EXCEPT !.threw = TRUE, !.out = <<>>]

\* ComponentRegistry.isComponent(name), registry.js:251-253
hasComponent(r, name) == MapHas(r.components, name)
\* getComponent that asks the parent when the node has no such name
getComponentOrParent(r, name) ==
    IF MapHas(r.components, name) THEN MapGet(r.components, name, NoComponent)
    ELSE IF r.parent # NoRegistry
         THEN MapGet(regs[r.parent].components, name, NoComponent)
    ELSE NoComponent

\* getComponent(name), registry.js:237-239
getComponent(r, name) == MapGet(r.components, name, NoComponent)
\* getComponents(), registry.js:230-232: the live map
getComponents(r) == r.components
\* isCollection(name), registry.js:244-246
isCollection(r, name) == MapHas(r.collections, name)
\* getCollectionNames(), registry.js:212-218
getCollectionNames(r) == [i \in 1..Len(r.collections) |-> r.collections[i][1]]
\* isValid(), registry.js:206-208: (components.size || collections.size) > 0
isValid(r) ==
    (IF Len(r.components) # 0 THEN Len(r.components) ELSE Len(r.collections)) > 0

\* __register that overwrites: the duplicate check of registry.js:170 left out
registerOverwrite(st, this, component) ==
    LET meta == metadata(descs, component)
    IN  [st EXCEPT !.regs[this].components = MapSet(@, meta.name, component)]

\* __register(component), registry.js:168-176
register(st, this, component) ==
    LET meta == metadata(descs, component)
    IN  IF hasComponent(st.regs[this], meta.name)
        THEN [st EXCEPT !.log = Append(@, LogEntry("warn", "Duplicate component found",
                                                   meta.name, component, <<>>))]
        ELSE [st EXCEPT !.regs[this].components = MapSet(@, meta.name, component)]

RECURSIVE registerEach(_, _, _)
\* components.forEach(component => this.__register(component))
registerEach(st, this, components) ==
    IF components = <<>> THEN st
    ELSE registerEach(register(st, this, Head(components)), this, Tail(components))

\* Object.values(v): TypeError for undefined and null; the characters of a
\* string; the own enumerable property values of an object or function
ObjectValues(v) ==
    IF v.nul \/ v.t = "undefined" THEN Threw
    ELSE IF v.t = "string" THEN Ok(<<Str>>)
    ELSE Ok(MapValues(v.own))

\* __resolveComponents(filePath), registry.js:139-155: whatever is thrown in
\* the try block (by require, by isComponent or by Object.values) is caught
\* and logged, and the file yields no component
resolveComponents(filePath) ==
    LET mod == require(fs, filePath)
        caught == [out |-> <<>>,
                   log |-> <<LogEntry("error", "load", "", NoComponent, filePath)>>]
        direct == isComponent(mod.exports)
        vals == ObjectValues(mod.exports)
    IN  IF mod.throws THEN caught
        ELSE IF direct.threw THEN caught
        ELSE IF direct.value THEN [out |-> <<mod.exports>>, log |-> <<>>]
        ELSE IF vals.threw THEN caught
        ELSE IF \E i \in 1..Len(vals.value) : isComponent(vals.value[i]).threw THEN caught
        ELSE [out |-> SelectSeq(vals.value, LAMBDA v : isComponent(v).value), log |-> <<>>]

\* the comparator of __scanDir, registry.js:97-99
compareFn(a, b) == IF isDirectory(fs, a) THEN 1 ELSE 0

\* one step of an insertion sort: the element moves left past every entry
\* the comparator puts after it
InsertSorted(sorted, element) ==
    LET stay == {k \in 0..Len(sorted) :
                    \A j \in (k + 1)..Len(sorted) : compareFn(sorted[j], element) > 0}
        k == CHOOSE x \in stay : \A y \in stay : x <= y
    IN  SubSeq(sorted, 1, k) \o <<element>> \o SubSeq(sorted, k + 1, Len(sorted))

RECURSIVE InsertionSort(_, _)
InsertionSort(todo, sorted) ==
    IF todo = <<>> THEN sorted
    ELSE InsertionSort(Tail(todo), InsertSorted(sorted, Head(todo)))

\* Array.prototype.sort with this comparator, which never answers a negative
\* number and so is not a consistent comparator: the order is then up to the
\* implementation.  An insertion sort (V8 up to Node 10, short arrays) moves
\* each entry left past the directories before it; a merge sort that looks
\* for descending runs (V8 from Node 11) finds none and leaves the array as
\* it is.
arraySort(list) ==
    IF engine = "insertion" THEN InsertionSort(list, <<>>) ELSE list

\* the filter of __scanDir, registry.js:95: ~['', '.js'].indexOf(extname)
keepsEntry(name) == Extname(name) \in {<<>>, <<".", "j", "s">>}

RECURSIVE assemble(_, _, _, _)
RECURSIVE scanDir(_, _, _, _)
RECURSIVE digestPath(_, _, _, _)
RECURSIVE digestEach(_, _, _, _)

\* buildFromFs without the existence check of registry.js:79: the scan of a
\* missing directory faults
buildFromFsUnchecked(st, this, baseDir, withCollections) ==
    With(PathResolve(baseDir), LAMBDA dir :
        IF existsSync(fs, dir)
        THEN With(scanDir(st, this, dir, withCollections), LAMBDA scanned :
                IF scanned.threw THEN scanned
                ELSE [registerEach(scanned, this, scanned.out) EXCEPT !.out = this])
        ELSE Fault(st))

\* __buildFromFs(baseDir, withCollections), registry.js:77-87
buildFromFs(st, this, baseDir, withCollections) ==
    With(PathResolve(baseDir), LAMBDA dir :
        IF existsSync(fs, dir)
        THEN With(scanDir(st, this, dir, withCollections), LAMBDA scanned :
                IF scanned.threw THEN scanned
                ELSE [registerEach(scanned, this, scanned.out) EXCEPT !.out = this])
        ELSE [st EXCEPT !.log = Append(@, LogEntry("error", "Invalid component directory",
                                                   "", NoComponent, baseDir)),
                        !.out = this])

\* static assemble(parent, componentDir, cwd), registry.js:38-44
assemble(st, parent, componentDir, cwd) ==
    LET dir == fullPath(cwd, componentDir)
        this == Len(st.regs) + 1
        made == [st EXCEPT !.regs = Append(@, NewRegistry(parent))]
    IN  buildFromFs(made, this, dir, parent = NoRegistry)

\* _addCollection(subdir), registry.js:132-134: the child is assembled with
\* the default cwd, process.cwd()
addCollection(st, this, subdir) ==
    With(assemble(st, this, subdir, ProcessCwd), LAMBDA child :
        IF child.threw THEN child
        ELSE [child EXCEPT !.regs[this].collections = MapSet(@, Basename(subdir), child.out),
                           !.out = <<>>])

\* __digestPath(filePath, withCollections), registry.js:109-127
digestPath(st, this, filePath0, withCollections) ==
    With(IF existsSync(fs, filePath0) THEN filePath0 ELSE filePath0 \o <<".", "j", "s">>,
         LAMBDA filePath :
        IF ~existsSync(fs, filePath) THEN Fault(st)   \* fs.statSync throws ENOENT
        ELSE IF isDirectory(fs, filePath) /\ withCollections
             THEN addCollection(st, this, filePath)
        ELSE IF isDirectory(fs, filePath)
             THEN scanDir(st, this, filePath, FALSE)
        ELSE IF isFile(fs, filePath)
             THEN With(resolveComponents(filePath), LAMBDA found :
                     [st EXCEPT !.log = @ \o found.log,
                                !.loads = Append(@, filePath),
                                !.out = [i \in 1..Len(found.out) |->
                                            componentFactory(found.out[i])]])
        ELSE [st EXCEPT !.out = <<>>])

\* .map(file => this.__digestPath(file, withCollections)) and the flattening
\* of its results, left to right; a fault ends the loop
digestEach(st, this, files, withCollections) ==
    IF files = <<>> THEN [st EXCEPT !.out = <<>>]
    ELSE With(digestPath(st, this, Head(files), withCollections), LAMBDA first :
            IF first.threw THEN first
            ELSE With(digestEach(first, this, Tail(files), withCollections), LAMBDA rest :
                    IF rest.threw THEN rest
                    ELSE [rest EXCEPT !.out = first.out \o rest.out]))

\* __scanDir(dir, withCollections), registry.js:93-103
scanDir(st, this, dir, withCollections) ==
    IF ~isDirectory(fs, dir) THEN Fault(st)   \* fs.readdirSync throws ENOTDIR
    ELSE With(SelectSeq(readdirSync(fs, dir), keepsEntry), LAMBDA kept :
            digestEach(st, this, arraySort([i \in 1..Len(kept) |-> PathJoin(dir, kept[i])]),
                       withCollections))

\* An item of the list handed to create: a path string, or another value
PathItem(text) == [kind |-> "path", text |-> text, value |-> Str]
ValueItem(v)   == [kind |-> "value", text |-> <<>>, value |-> v]

\* the callback of list.map in __buildFromItems, registry.js:51-65: a fault
\* of isComponent, of Object.values or of __digestPath is not caught
digestItem(st, this, item, baseDir) ==
    LET direct == isComponent(item.value)
        vals == ObjectValues(item.value)
    IN  IF direct.threw THEN Fault(st)
        ELSE IF direct.value THEN [st EXCEPT !.out = <<componentFactory(item.value)>>]
        ELSE IF TypeOf(item.value) = "object"
             THEN IF vals.threw THEN Fault(st)
                  ELSE IF \E i \in 1..Len(vals.value) : isComponent(vals.value[i]).threw
                       THEN Fault(st)
                  ELSE LET refs == SelectSeq(vals.value, LAMBDA v : isComponent(v).value)
                       IN  [st EXCEPT !.out = [i \in 1..Len(refs) |-> componentFactory(refs[i])]]
        ELSE IF TypeOf(item.value) = "string"
             THEN digestPath(st, this, fullPath(baseDir, item.text), FALSE)
        ELSE [st EXCEPT !.out = <<>>]

RECURSIVE digestItems(_, _, _, _)
\* list.map(..), the filter of empties and the flattening, left to right; a
\* fault ends the loop
digestItems(st, this, list, baseDir) ==
    IF list = <<>> THEN [st EXCEPT !.out = <<>>]
    ELSE With(digestItem(st, this, Head(list), baseDir), LAMBDA first :
            IF first.threw THEN first
            ELSE With(digestItems(first, this, Tail(list), baseDir), LAMBDA rest :
                    IF rest.threw THEN rest
                    ELSE [rest EXCEPT !.out = first.out \o rest.out]))

\* __buildFromItems(list, baseDir), registry.js:50-70
buildFromItems(st, this, list, baseDir) ==
    With(digestItems(st, this, list, baseDir), LAMBDA results :
        IF results.threw THEN results
        ELSE [registerEach(results, this, results.out) EXCEPT !.out = this])

\* static create(components, cwd), registry.js:26-29
create(st, components, cwd) ==
    LET this == Len(st.regs) + 1
        made == [st EXCEPT !.regs = Append(@, NewRegistry(NoRegistry))]
    IN  buildFromItems(made, this, components, cwd)

RECURSIVE registerInto(_, _, _)
\* this._collections.forEach(collection => collection.__register(component))
registerInto(st, collections, component) ==
    IF collections = <<>> THEN st
    ELSE registerInto(register(st, Head(collections)[2], component),
                      Tail(collections), component)

RECURSIVE mergeFrom(_, _, _, _, _)
\* the forEach of merge over the live map registry.getComponents(), from its
\* i-th entry on: an entry added to the map during the loop is visited too
mergeFrom(st, this, registry, recursive, i) ==
    IF i > Len(getComponents(st.regs[registry])) THEN st
    ELSE LET component == getComponents(st.regs[registry])[i][2]
             own == register(st, this, component)
             all == IF recursive
                    THEN registerInto(own, own.regs[this].collections, component)
                    ELSE own
         IN  mergeFrom(all, this, registry, recursive, i + 1)

\* merge that ignores its flag and always descends into the collections
mergeAlwaysRecursive(st, this, registry, recursive) ==
    [mergeFrom(st, this, registry, TRUE, 1) EXCEPT !.out = this]

\* merge that never descends into the collections
mergeNeverRecursive(st, this, registry, recursive) ==
    [mergeFrom(st, this, registry, FALSE, 1) EXCEPT !.out = this]

RECURSIVE mergeFromWhenTaken(_, _, _, _, _)
\* a merge loop that descends into the collections only for a component the
\* node itself took
mergeFromWhenTaken(st, this, registry, recursive, i) ==
    IF i > Len(getComponents(st.regs[registry])) THEN st
    ELSE LET component == getComponents(st.regs[registry])[i][2]
             own == register(st, this, component)
             all == IF recursive /\ own.regs # st.regs
                    THEN registerInto(own, own.regs[this].collections, component)
                    ELSE own
         IN  mergeFromWhenTaken(all, this, registry, recursive, i + 1)

\* merge whose recursion depends on the node's own outcome
mergeChildrenWhenTaken(st, this, registry, recursive) ==
    [mergeFromWhenTaken(st, this, registry, recursive, 1) EXCEPT !.out = this]

RECURSIVE mergeFromUntilTaken(_, _, _, _, _)
\* a merge loop that ends with the first component that is written somewhere
mergeFromUntilTaken(st, this, registry, recursive, i) ==
    IF i > Len(getComponents(st.regs[registry])) THEN st
    ELSE LET component == getComponents(st.regs[registry])[i][2]
             own == register(st, this, component)
             all == IF recursive
                    THEN registerInto(own, own.regs[this].collections, component)
                    ELSE own
         IN  IF all.regs # st.regs THEN all
             ELSE mergeFromUntilTaken(all, this, registry, recursive, i + 1)

\* merge that takes one component per call
mergeOnePerCall(st, this, registry, recursive) ==
    [mergeFromUntilTaken(st, this, registry, recursive, 1) EXCEPT !.out = this]

\* merge(registry, recursive), registry.js:182-190
merge(st, this, registry, recursive) ==
    [mergeFrom(st, this, registry, recursive, 1) EXCEPT !.out = this]

\* The optional collection argument of getRegistry and getMetadata: a name,
\* or nothing (undefined).  JavaScript takes undefined and "" as false.
NoName == [given |-> FALSE, name |-> <<>>]
Named(n) == [given |-> TRUE, name |-> n]
Truthy(collection) == collection.given /\ collection.name # <<>>

\* getRegistry that falls back to the node itself for an unknown name
getRegistryOrThis(rs, this, collection) ==
    IF Truthy(collection) /\ MapHas(rs[this].collections, collection.name)
    THEN MapGet(rs[this].collections, collection.name, NoRegistry)
    ELSE this

\* getRegistry(collection), registry.js:224-226
getRegistry(rs, this, collection) ==
    IF Truthy(collection) THEN MapGet(rs[this].collections, collection.name, NoRegistry)
    ELSE this

\* Object.assign({}, descriptor): a new object with the same property
\* values; an object held in a property is shared, not copied
ObjectAssign(descriptor) == [descriptor EXCEPT !.top = FALSE]

\* getMetadata that pushes the descriptor itself, not a copy
getMetadataByReference(st, this, collection) ==
    LET registry == getRegistry(st.regs, this, collection)
    IN  IF registry # NoRegistry
        THEN [st EXCEPT !.out = [i \in 1..Len(getComponents(st.regs[registry])) |->
                                    metadata(descs, getComponents(st.regs[registry])[i][2])]]
        ELSE [st EXCEPT !.log = Append(@, LogEntry("error", "Invalid registry requested",
                                                   "", NoComponent, collection.name)),
                        !.out = <<>>]

\* getMetadata(collection), registry.js:259-272
getMetadata(st, this, collection) ==
    LET registry == getRegistry(st.regs, this, collection)
    IN  IF registry # NoRegistry
        THEN [st EXCEPT !.out = [i \in 1..Len(getComponents(st.regs[registry])) |->
                                    ObjectAssign(metadata(descs,
                                        getComponents(st.regs[registry])[i][2]))]]
        ELSE [st EXCEPT !.log = Append(@, LogEntry("error", "Invalid registry requested",
                                                   "", NoComponent, collection.name)),
                        !.out = <<>>]

(***************************************************************************)
(* The directory trees the scan is tried on                                *)
(*                                                                         *)
(*   /w                 process.cwd()                                      *)
(*   /w/r               the component directory                            *)
(*   /w/r/a.js          a module                                           *)
(*   /w/r/n.ts          a file of another extension                        *)
(*   /w/r/s/b.js        a module in a subdirectory                         *)
(*   /w/r/s/d/c.js      a module two levels down                           *)
(*   /w/r/t/e.js        a module in a second subdirectory                  *)
(*   /w/r/u.v/f.js      a module in a subdirectory with a dotted name      *)
(*   /o/r/s/b.js        a component directory outside process.cwd()        *)
(***************************************************************************)
\* a file name with a two-letter extension
FileName(c, x, y) == <<c, ".", x, y>>
DirW  == <<"/", "w">>
DirR  == <<"/", "w", "/", "r">>
DirS  == DirR \o <<"/", "s">>
DirD  == DirS \o <<"/", "d">>
DirT  == DirR \o <<"/", "t">>
DirU  == DirR \o <<"/", "u", ".", "v">>
DirO  == <<"/", "o">>
DirOR == <<"/", "o", "/", "r">>
DirOS == DirOR \o <<"/", "s">>

\* module.exports = { a: <class C>, b: <pre-built D>, c: "not a component" }
MultiExport ==
    Val("multi", "object", FALSE,
        << <<"a", ClassRef("C")>>, <<"b", LegacyRef("D")>>, <<"c", Str>> >>, FALSE, <<>>)
\* module.exports = { a: <class A>, b: null }
NullProperty ==
    Val("nullprop", "object", FALSE, << <<"a", ClassRef("A")>>, <<"b", Null>> >>, FALSE, <<>>)

\* the listing orders of /w/r: the system lists in any order
RootListings(withU) ==
    LET u == IF withU THEN << <<"u", ".", "v">> >> ELSE <<>>
    IN  { <<FileName("a", "j", "s"), FileName("n", "t", "s"), <<"s">>, <<"t">>>> \o u,
          u \o << <<"t">>, <<"s">>, FileName("n", "t", "s"), FileName("a", "j", "s") >> }

Tree(ma, mb, mc, withU, listing) ==
    (DirW :> Dir(<< <<"r">> >>))
    @@ (DirR :> Dir(listing))
    @@ (PathJoin(DirR, FileName("a", "j", "s")) :> File(ma))
    @@ (PathJoin(DirR, FileName("n", "t", "s")) :> File(Exports(ClassRef("B"))))
    @@ (DirS :> Dir(<< <<"d">>, FileName("b", "j", "s") >>))
    @@ (PathJoin(DirS, FileName("b", "j", "s")) :> File(mb))
    @@ (DirD :> Dir(<<FileName("c", "j", "s")>>))
    @@ (PathJoin(DirD, FileName("c", "j", "s")) :> File(mc))
    @@ (DirT :> Dir(<<FileName("e", "j", "s")>>))
    @@ (PathJoin(DirT, FileName("e", "j", "s")) :> File(Exports(ClassRef("C"))))
    @@ (IF withU
        THEN (DirU :> Dir(<<FileName("f", "j", "s")>>))
             @@ (PathJoin(DirU, FileName("f", "j", "s")) :> File(Exports(LegacyRef("D"))))
        ELSE <<>>)
    @@ (DirO :> Dir(<< <<"r">> >>))
    @@ (DirOR :> Dir(<< <<"s">> >>))
    @@ (DirOS :> Dir(<<FileName("b", "j", "s")>>))
    @@ (PathJoin(DirOS, FileName("b", "j", "s")) :> File(Exports(ClassRef("C"))))

ModulesA == {Exports(ClassRef("A")), Throws, Exports(MultiExport), Exports(NullProperty)}
ModulesB == {Exports(ClassRef("B")), Exports(ClassRef("C")), Throws}
ModulesC == {Exports(ClassRef("A")), Exports(LegacyRef("D")), Exports(Undefined)}

Trees ==
    UNION {{Tree(ma, mb, mc, withU, listing) :
                ma \in ModulesA, mb \in ModulesB, mc \in ModulesC,
                listing \in RootListings(withU)} : withU \in BOOLEAN}

Engines == {"insertion", "merge"}

NoRet == [op |-> "none"]

(***************************************************************************)
(* SpecCap: the capability test applied to one loaded value                *)
(***************************************************************************)
InitCap ==
    /\ arg \in CapValues
    /\ ret = NoRet
    /\ fs = <<>> /\ regs = <<>> /\ descs = <<>> /\ log = <<>> /\ held = <<>>
    /\ engine = "insertion" /\ nops = 0

CapabilityTest ==
    /\ ret = NoRet
    /\ arg \in CapValues
    /\ ret' = [op |-> "isComponent", res |-> isComponent(arg)]
    /\ UNCHANGED <<fs, regs, descs, log, held, arg, engine, nops>>

NextCap == CapabilityTest

SpecCap == InitCap /\ [][NextCap]_vars

(***************************************************************************)
(* SpecFs: registries assembled from a directory tree                      *)
(***************************************************************************)
\* how many assemble calls a behaviour makes
MaxBuilds == 2

\* the (componentDir, cwd) arguments tried; with cwd = process.cwd() the call
\* is the two-argument form
AssembleArgs ==
    { <<<<"r">>, ProcessCwd>>,                 \* relative to process.cwd()
      <<DirR, ProcessCwd>>,                    \* already under process.cwd()
      <<<<"r", "/", "s">>, ProcessCwd>>,       \* a subdirectory
      <<<<"x">>, ProcessCwd>>,                 \* no such directory
      <<<<"r">>, DirO>> }                      \* a tree outside process.cwd()

InitFs ==
    /\ fs \in Trees
    /\ engine \in Engines
    /\ regs = <<>>
    /\ descs = InitialDescs
    /\ log = <<>>
    /\ ret = NoRet
    /\ held = <<>>
    /\ arg = Undefined
    /\ nops = 0

\* ComponentRegistry.assemble(parent, componentDir, cwd)
Assemble(parent, componentDir, cwd) ==
    \E done \in {assemble(Step(regs, <<>>, <<>>), parent, componentDir, cwd)} :
        /\ regs' = IF done.threw THEN regs ELSE done.regs
        /\ log' = done.log
        /\ ret' = [op |-> "assemble", parent |-> parent, dir |-> PathResolve(fullPath(cwd, componentDir)),
                   cwd |-> cwd, threw |-> done.threw, loads |-> done.loads,
                   out |-> IF done.threw THEN NoRegistry ELSE done.out]
        /\ nops' = nops + 1
        /\ UNCHANGED <<fs, descs, held, arg, engine>>

\* the parent handed to assemble: none, or a root registry built before
Parents == {NoRegistry} \cup {i \in DOMAIN regs : regs[i].parent = NoRegistry}

NextFs ==
    \E parent \in Parents, a \in AssembleArgs :
        /\ nops < MaxBuilds
        /\ Assemble(parent, a[1], a[2])

SpecFs == InitFs /\ [][NextFs]_vars

(***************************************************************************)
(* Spec: registries built from a tree, then registration and merge         *)
(***************************************************************************)
\* how many constructions, registrations and merges a behaviour makes
MaxOps == 3

\* the trees the registries of Spec are built from
SmallTrees ==
    {Tree(ma, mb, Exports(LegacyRef("D")), FALSE,
          <<FileName("a", "j", "s"), FileName("n", "t", "s"), <<"s">>, <<"t">>>>) :
        ma \in {Exports(ClassRef("A")), Exports(MultiExport)},
        mb \in {Exports(ClassRef("B")), Exports(ClassRef("C"))}}

Init ==
    /\ fs \in SmallTrees
    /\ engine \in Engines
    /\ regs = <<>>
    /\ descs = InitialDescs
    /\ log = <<>>
    /\ ret = NoRet
    /\ held = <<>>
    /\ arg = Undefined
    /\ nops = 0

\* the first registry: ComponentRegistry.assemble(null, "r")
BuildRoot ==
    /\ regs = <<>>
    /\ Assemble(NoRegistry, <<"r">>, ProcessCwd)

\* a further registry: a second root over the subdirectory, or a flat
\* registry under the first one
BuildMore ==
    /\ regs # <<>>
    /\ nops < MaxOps
    /\ \E parent \in {NoRegistry, 1}, dir \in {<<"r">>, <<"r", "/", "s">>} :
          Assemble(parent, dir, ProcessCwd)

\* what a call's record keeps for the caller: the registries the call wrote
\* to, and the merge call made just before it, if any, with what that wrote
Written(before, after) == {n \in DOMAIN before : after[n] # before[n]}
Previous(r) == IF r.op = "merge" THEN <<r.this, r.registry, r.recursive, r.wrote>>
               ELSE <<>>

\* this.__register(component) with an instantiated component
Register(this, c) ==
    /\ nops < MaxOps
    /\ \E done \in {register(Step(regs, <<>>, <<>>), this, Inst(c))} :
          /\ regs' = done.regs
          /\ log' = done.log
          /\ ret' = [op |-> "register", this |-> this, component |-> Inst(c),
                     wrote |-> Written(regs, done.regs), prev |-> Previous(ret)]
    /\ nops' = nops + 1
    /\ UNCHANGED <<fs, descs, held, arg, engine>>

\* this.merge(registry, recursive)
Merge(this, registry, recursive) ==
    /\ nops < MaxOps
    /\ \E done \in {merge(Step(regs, <<>>, <<>>), this, registry, recursive)} :
          /\ regs' = done.regs
          /\ log' = done.log
          /\ ret' = [op |-> "merge", this |-> this, registry |-> registry,
                     recursive |-> recursive, out |-> done.out,
                     wrote |-> Written(regs, done.regs), prev |-> Previous(ret)]
    /\ nops' = nops + 1
    /\ UNCHANGED <<fs, descs, held, arg, engine>>

Next ==
    \/ BuildRoot
    \/ BuildMore
    \/ \E this \in DOMAIN regs, c \in CompIds : Register(this, c)
    \/ \E this \in DOMAIN regs, registry \in DOMAIN regs, recursive \in BOOLEAN :
          Merge(this, registry, recursive)

Spec == Init /\ [][Next]_vars

(***************************************************************************)
(* SpecLookup: lookups on a built registry, and a caller that writes to    *)
(* the array getMetadata() returned                                        *)
(***************************************************************************)
\* the collection arguments tried: none, the empty string, two collections
\* of the tree, and a name no collection has
CollectionArgs ==
    {NoName, Named(<<>>), Named(<<"s">>), Named(<<"t">>), Named(<<"q">>)}

\* this.getRegistry(collection)
GetRegistry(this, collection) ==
    /\ ret' = [op |-> "getRegistry", this |-> this, collection |-> collection,
               threw |-> FALSE, out |-> getRegistry(regs, this, collection)]
    /\ log' = <<>>
    /\ UNCHANGED <<fs, regs, descs, held, arg, engine, nops>>

\* held = this.getMetadata(collection)
GetMetadata(this, collection) ==
    /\ \E done \in {getMetadata(Step(regs, <<>>, <<>>), this, collection)} :
          /\ regs' = done.regs
          /\ log' = done.log
          /\ held' = done.out
          /\ ret' = [op |-> "getMetadata", this |-> this, collection |-> collection,
                     threw |-> done.threw]
    /\ UNCHANGED <<fs, descs, arg, engine, nops>>

\* the component names asked for: those of the model and one no node has
LookupNames == {"x", "y", "z", "q"}

\* this.getComponent(name)
GetComponent(this, name) ==
    /\ ret' = [op |-> "getComponent", this |-> this, name |-> name,
               threw |-> FALSE, out |-> getComponent(regs[this], name)]
    /\ log' = <<>>
    /\ UNCHANGED <<fs, regs, descs, held, arg, engine, nops>>

\* this.isComponent(name)
IsComponent(this, name) ==
    /\ ret' = [op |-> "isComponent", this |-> this, name |-> name,
               threw |-> FALSE, out |-> hasComponent(regs[this], name)]
    /\ log' = <<>>
    /\ UNCHANGED <<fs, regs, descs, held, arg, engine, nops>>

\* this.getComponents()
GetComponents(this) ==
    /\ ret' = [op |-> "getComponents", this |-> this,
               threw |-> FALSE, out |-> getComponents(regs[this])]
    /\ log' = <<>>
    /\ UNCHANGED <<fs, regs, descs, held, arg, engine, nops>>

\* what the caller reads in an element it holds: a property of the element,
\* and the array in supportedActions, are the component's own objects when
\* the element, or the array, is shared with the component
NameIn(ds, e) == IF e.top THEN ds[e.src].name ELSE e.name
ActionsIn(ds, e) ==
    IF e.top \/ e.nested THEN ds[e.src].supportedActions ELSE e.supportedActions

\* held[i].name = "hacked"
SetElementName(i) ==
    /\ NameIn(descs, held[i]) # "hacked"
    /\ IF held[i].top
       THEN /\ descs' = [descs EXCEPT ![held[i].src].name = "hacked"]
            /\ held' = held
       ELSE /\ held' = [held EXCEPT ![i].name = "hacked"]
            /\ descs' = descs
    /\ ret' = [op |-> "mutate", kind |-> "name", index |-> i]
    /\ log' = <<>>
    /\ UNCHANGED <<fs, regs, arg, engine, nops>>

\* held[i].supportedActions.push("evil")
PushNestedAction(i) ==
    /\ "evil" \notin Range(ActionsIn(descs, held[i]))
    /\ IF held[i].top \/ held[i].nested
       THEN /\ descs' = [descs EXCEPT ![held[i].src].supportedActions = Append(@, "evil")]
            /\ held' = held
       ELSE /\ held' = [held EXCEPT ![i].supportedActions = Append(@, "evil")]
            /\ descs' = descs
    /\ ret' = [op |-> "mutate", kind |-> "nested", index |-> i]
    /\ log' = <<>>
    /\ UNCHANGED <<fs, regs, arg, engine, nops>>

\* held.pop()
PopHeld ==
    /\ held # <<>>
    /\ held' = SubSeq(held, 1, Len(held) - 1)
    /\ ret' = [op |-> "mutate", kind |-> "sequence", index |-> Len(held)]
    /\ log' = <<>>
    /\ UNCHANGED <<fs, regs, descs, arg, engine, nops>>

NextLookup ==
    \/ BuildRoot
    \/ \E this \in DOMAIN regs, collection \in CollectionArgs : GetRegistry(this, collection)
    \/ \E this \in DOMAIN regs, collection \in CollectionArgs : GetMetadata(this, collection)
    \/ \E this \in DOMAIN regs, name \in LookupNames : GetComponent(this, name)
    \/ \E this \in DOMAIN regs, name \in LookupNames : IsComponent(this, name)
    \/ \E this \in DOMAIN regs : GetComponents(this)
    \/ \E i \in DOMAIN held : SetElementName(i)
    \/ \E i \in DOMAIN held : PushNestedAction(i)
    \/ PopHeld

SpecLookup == Init /\ [][NextLookup]_vars

(***************************************************************************)
(* SpecResolve: the Module Resolver applied to one module file, and the    *)
(* registry assembled from the directory that holds it                     *)
(*                                                                         *)
(*   /w/m/a.js          the module                                         *)
(***************************************************************************)
DirM == DirW \o <<"/", "m">>
ModulePath == PathJoin(DirM, FileName("a", "j", "s"))

\* what a property of an exported object may hold
PropertyValues ==
    {ClassRef("A"), ClassRef("C"), LegacyRef("D"), Str, Null, Undefined, FnPlain, Arrow}

\* module.exports = { p: .., q: .. } and { p: .., q: .., r: .. }
ExportedObjects ==
    {Val("exports", "object", FALSE, << <<"p", p>>, <<"q", q>> >>, FALSE, <<>>) :
        p \in PropertyValues, q \in PropertyValues}
    \cup {Val("exports", "object", FALSE, << <<"p", p>>, <<"q", q>>, <<"r", r>> >>, FALSE, <<>>) :
            p \in PropertyValues, q \in PropertyValues, r \in PropertyValues}

\* a component class with a static property that holds another component,
\* and a pre-built component object with such a property
ClassWithStatic ==
    Val("A", "function", FALSE, << <<"k", ClassRef("C")>> >>, TRUE, Members("fn", "fn"))
LegacyWithProperty ==
    Val("D", "object", FALSE, Members("fn", "fn") \o << <<"k", ClassRef("C")>> >>, FALSE, <<>>)
\* module.exports = function helper() {}; helper.k = <class C>
FunctionWithStatic ==
    Val("helper", "function", FALSE, << <<"k", ClassRef("C")>> >>, TRUE, <<>>)

ResolveModules ==
    {Throws}
    \cup {Exports(v) : v \in {Undefined, Null, Str, Num, FnPlain, Arrow,
                              ClassRef("A"), LegacyRef("D"), MultiExport, NullProperty,
                              ClassWithStatic, LegacyWithProperty, FunctionWithStatic}}
    \cup {Exports(v) : v \in ExportedObjects}

ModuleTree(mod) ==
    (DirW :> Dir(<< <<"m">> >>))
    @@ (DirM :> Dir(<<FileName("a", "j", "s")>>))
    @@ (ModulePath :> File(mod))

InitResolve ==
    /\ fs \in {ModuleTree(mod) : mod \in ResolveModules}
    /\ engine \in Engines
    /\ regs = <<>>
    /\ descs = InitialDescs
    /\ log = <<>>
    /\ ret = NoRet
    /\ held = <<>>
    /\ arg = Undefined
    /\ nops = 0

\* this.__resolveComponents(filePath)
ResolveComponents(filePath) ==
    /\ ret.op # "resolve"
    /\ \E found \in {resolveComponents(filePath)} :
          /\ ret' = [op |-> "resolve", path |-> filePath, out |-> found.out]
          /\ log' = found.log
    /\ UNCHANGED <<fs, regs, descs, held, arg, engine, nops>>

\* ComponentRegistry.assemble(null, "m")
AssembleModuleDir ==
    /\ regs = <<>>
    /\ Assemble(NoRegistry, <<"m">>, ProcessCwd)

NextResolve ==
    \/ ResolveComponents(ModulePath)
    \/ AssembleModuleDir

SpecResolve == InitResolve /\ [][NextResolve]_vars

(***************************************************************************)
(* SpecItems: a registry created from an explicit list of items            *)
(*                                                                         *)
(*   /w/r/w/g.js        a module whose path from /w holds the text "/w"    *)
(***************************************************************************)
DirRW == DirR \o <<"/", "w">>

\* a tree of the scan with the directory /w/r/w added
ItemTree(ma, listing) ==
    (DirR :> Dir(Append(listing, <<"w">>)))
    @@ (DirRW :> Dir(<<FileName("g", "j", "s")>>))
    @@ (PathJoin(DirRW, FileName("g", "j", "s")) :> File(Exports(ClassRef("C"))))
    @@ Tree(ma, Exports(ClassRef("B")), Exports(LegacyRef("D")), FALSE, listing)

ItemTrees ==
    {ItemTree(ma, listing) : ma \in {Exports(ClassRef("A")), Exports(MultiExport)},
                             listing \in RootListings(FALSE)}

\* the items tried: component references, objects of values, values of
\* other shapes, and path strings
ValueItems ==
    {ValueItem(v) : v \in {ClassRef("A"), ClassRef("B"), LegacyRef("D"), MultiExport,
                           NullProperty, Null, Undefined, Num, FnPlain, Arrow}}
PathItems ==
    {PathItem(<<"r">>),                                  \* a directory with subdirectories
     PathItem(<<"r", "/", "s">>),                        \* a directory with a subdirectory
     PathItem(<<".", "/", "r", "/", "a">>),              \* a file, without its extension
     PathItem(DirT),                                     \* an absolute path under /w
     PathItem(<<"r", "/", "q">>),                        \* nothing there
     PathItem(<<"r", "/", "w", "/">> \o FileName("g", "j", "s"))}          \* holds the text "/w" past its start

\* the lists tried: up to two items
ItemLists ==
    LET Items == ValueItems \cup PathItems
    IN  {<<>>} \cup {<<a>> : a \in Items} \cup {<<a, b>> : a \in Items, b \in Items}

\* the base directories tried: process.cwd() (the default) and another one
BaseDirs == {ProcessCwd, DirO}

InitItems ==
    /\ fs \in ItemTrees
    /\ engine \in Engines
    /\ regs = <<>>
    /\ descs = InitialDescs
    /\ log = <<>>
    /\ ret = NoRet
    /\ held = <<>>
    /\ arg = Undefined
    /\ nops = 0

\* the path strings of a list
PathsOf(list) == SelectSeq(list, LAMBDA item : item.kind = "path")

\* ComponentRegistry.create(components, cwd); resolved records what
\* fullPath makes of each path string of the list
Create(components, cwd) ==
    /\ nops = 0
    /\ \E done \in {create(Step(regs, <<>>, <<>>), components, cwd)} :
          /\ regs' = IF done.threw THEN regs ELSE done.regs
          /\ log' = done.log
          /\ ret' = [op |-> "create", list |-> components, cwd |-> cwd,
                     resolved |-> [i \in 1..Len(PathsOf(components)) |->
                                      fullPath(cwd, PathsOf(components)[i].text)],
                     threw |-> done.threw, loads |-> done.loads,
                     out |-> IF done.threw THEN NoRegistry ELSE done.out]
    /\ nops' = nops + 1
    /\ UNCHANGED <<fs, descs, held, arg, engine>>

NextItems == \E components \in ItemLists, cwd \in BaseDirs : Create(components, cwd)

SpecItems == InitItems /\ [][NextItems]_vars

(***************************************************************************)
(* SpecMw: Middleware.init (src/middleware/index.ts)                       *)
(*                                                                         *)
(* An option value is told by its kind.  The layers' own extend functions  *)
(* are outside this model: extend is taken to add one layer to the router  *)
(* and to return normally.                                                 *)
(***************************************************************************)
\* what options[key] may be: the key left out, or a value
OptionKinds ==
    {"absent", "undefined", "null", "false", "zero", "empty", "true", "one", "text", "object"}

\* !!value
ToBoolean(kind) == kind \notin {"absent", "undefined", "null", "false", "zero", "empty"}

\* the keys of mwMap in insertion order: Map.prototype.forEach visits them
\* in this order
mwMap == <<"auth", "parser", "component">>

\* the options argument: left out (the default {} is taken), or an object
NoOptions == [given |-> FALSE, auth |-> "absent", parser |-> "absent",
              component |-> "absent", root |-> <<>>]
Options(a, p, c, root) ==
    [given |-> TRUE, auth |-> a, parser |-> p, component |-> c, root |-> root]

\* mw.extend(root, router, options[key]): one layer more on the router
extend(key, root, router, opts) ==
    Append(router, [key |-> key, root |-> root, options |-> opts])

RECURSIVE applyLayers(_, _, _, _)
\* mwMap.forEach((mw, key) => { if (!!options[key]) mw.extend(..) }), from
\* the i-th key on
applyLayers(router, root, options, i) ==
    IF i > Len(mwMap) THEN router
    ELSE applyLayers(IF ToBoolean(options[mwMap[i]])
                     THEN extend(mwMap[i], root, router, options[mwMap[i]])
                     ELSE router,
                     root, options, i + 1)

\* init that applies a layer whenever its key is in the options
initWhenPresent(options) ==
    LET root == IF options.root # <<>> THEN options.root ELSE ProcessCwd
        present == [k \in {"auth", "parser", "component"} |->
                       IF options[k] # "absent" THEN "true" ELSE "absent"]
    IN  applyLayers(<<>>, root, present, 1)

\* Middleware.init(options = {}), index.ts:48-65: the router returned, as the
\* sequence of its layers
init(options) ==
    LET root == IF options.root # <<>> THEN options.root ELSE ProcessCwd
    IN  applyLayers(<<>>, root, options, 1)

\* the options tried
OptionSets ==
    {NoOptions}
    \cup {Options(a, p, c, root) : a \in OptionKinds, p \in OptionKinds, c \in OptionKinds,
                                   root \in {<<>>, DirO}}

InitMw ==
    /\ ret = NoRet
    /\ arg = Undefined
    /\ fs = <<>> /\ regs = <<>> /\ descs = <<>> /\ log = <<>> /\ held = <<>>
    /\ engine = "insertion" /\ nops = 0

\* app.use(Middleware.init(options))
MiddlewareInit(options) ==
    /\ nops = 0
    /\ ret' = [op |-> "init", options |-> options, out |-> init(options)]
    /\ nops' = nops + 1
    /\ UNCHANGED <<fs, regs, descs, log, held, arg, engine>>

NextMw == \E options \in OptionSets : MiddlewareInit(options)

SpecMw == InitMw /\ [][NextMw]_vars

(***************************************************************************)
(* What the specification expects, stated without the code's operators     *)
(***************************************************************************)
\* Capability Test (spec 4.1): a constructible type whose instances expose
\* metadata and invoke, or an object directly exposing both
Callable(v) == v.t = "function"
Qualifies(v) ==
    \/ /\ v.t = "function" /\ v.hasProto
       /\ Callable(Prop(v.proto, "metadata")) /\ Callable(Prop(v.proto, "invoke"))
    \/ /\ v.t = "object" /\ ~v.nul
       /\ Callable(Prop(v.own, "metadata")) /\ Callable(Prop(v.own, "invoke"))

\* Module Resolver (spec 4.4): what a loaded module yields
Yields(mod) ==
    IF mod.throws THEN {}
    ELSE IF Qualifies(mod.exports) THEN {mod.exports}
    ELSE IF mod.exports.t = "object" /\ ~mod.exports.nul
         THEN {v \in Range(MapValues(mod.exports.own)) : Qualifies(v)}
    ELSE {}

\* the names the components of a set of references report
NamesOf(refs) == {InitialDescs[v.id].name : v \in refs}

\* p lies below directory dir
IsBelow(dir, p) ==
    /\ Len(p) > Len(dir) + 1
    /\ SubSeq(p, 1, Len(dir) + 1) = dir \o <<"/">>

\* the module files (extension "" or ".js") at every depth below dir
ModuleFilesBelow(dir) ==
    {p \in DOMAIN fs : /\ IsBelow(dir, p) /\ fs[p].kind = "file"
                       /\ Extname(p) \in {<<>>, <<".", "j", "s">>}}

\* the names of the components found in the module files below dir
NamesBelow(dir) == UNION {NamesOf(Yields(fs[p].mod)) : p \in ModuleFilesBelow(dir)}

\* the base names of the direct subdirectories of dir
SubdirNames(dir) ==
    {n \in Range(fs[dir].names) : fs[dir \o <<"/">> \o n].kind = "dir"}

\* the registry an assemble call returned, and its child collections
Built == regs[ret.out]
ChildrenOf(r) == {regs[r.collections[i][2]] : i \in 1..Len(r.collections)}

AssembledDir == ret.op = "assemble" /\ existsSync(fs, ret.dir)

\* the name a component reports
NameOfComponent(component) == InitialDescs[component.inst].name

\* the registries a merge or a registration may write to: the node and its
\* child collections
NodeAndChildren(rs, this) ==
    {this} \cup {rs[this].collections[i][2] : i \in 1..Len(rs[this].collections)}

(***************************************************************************)
(* C1 (confirmed).  Dedup, first registration wins: when a component is     *)
(* registered into a node that already holds a different component of the  *)
(* same name, getComponent(name) still returns the earlier component, the  *)
(* number of entries of getComponents() is unchanged, and a warning is     *)
(* logged for the rejected component.                                      *)
(***************************************************************************)
C1_FirstRegistrationWins ==
    [][(/\ ret'.op = "register"
        /\ hasComponent(regs[ret'.this], NameOfComponent(ret'.component))
        /\ getComponent(regs[ret'.this], NameOfComponent(ret'.component)) # ret'.component)
       => /\ getComponent(regs'[ret'.this], NameOfComponent(ret'.component))
               = getComponent(regs[ret'.this], NameOfComponent(ret'.component))
          /\ Len(getComponents(regs'[ret'.this])) = Len(getComponents(regs[ret'.this]))
          /\ \E j \in 1..Len(log') :
                /\ log'[j].level = "warn"
                /\ log'[j].name = NameOfComponent(ret'.component)
                /\ log'[j].inst = ret'.component]_vars

\* B was offered to a node holding A under the same name, and A is still there
C1_Witness ==
    /\ ret.op = "register"
    /\ ret.component = Inst("B")
    /\ getComponent(regs[ret.this], "x") = Inst("A")
    /\ log # <<>>

(***************************************************************************)
(* C4 (corrected).  Merge propagation.  The claim as made: after            *)
(* A.merge(B, true) every component of B appears in A.getComponents() and  *)
(* in the getComponents() of every child collection of A.                  *)
(***************************************************************************)
C4_EveryComponentOfBAppears ==
    (ret.op = "merge" /\ ret.recursive) =>
        \A n \in NodeAndChildren(regs, ret.this) :
            \A i \in 1..Len(getComponents(regs[ret.registry])) :
                getComponents(regs[ret.registry])[i][2]
                    \in Range(MapValues(getComponents(regs[n])))

(***************************************************************************)
(* C4 as amended: after A.merge(B, true), in A and in every child          *)
(* collection of A, every name of B's map is bound: to the component the   *)
(* node held under that name before the merge if it held one, and to B's   *)
(* component otherwise.                                                    *)
(***************************************************************************)
C4_MergePropagatesUnlessNameTaken ==
    [][(ret'.op = "merge" /\ ret'.recursive) =>
          \A n \in NodeAndChildren(regs, ret'.this) :
              \A i \in 1..Len(getComponents(regs[ret'.registry])) :
                  LET name == getComponents(regs[ret'.registry])[i][1]
                      component == getComponents(regs[ret'.registry])[i][2]
                  IN  getComponent(regs'[n], name)
                        = IF hasComponent(regs[n], name) THEN getComponent(regs[n], name)
                          ELSE component]_vars

\* a recursive merge into a node with collections, which took a component of
\* B into a child and kept the node's own component of the same name
C4_Witness ==
    /\ ret.op = "merge" /\ ret.recursive
    /\ ret.this # ret.registry
    /\ regs[ret.this].collections # <<>>
    /\ \E i \in 1..Len(getComponents(regs[ret.registry])) :
          LET name == getComponents(regs[ret.registry])[i][1]
              component == getComponents(regs[ret.registry])[i][2]
          IN  /\ getComponent(regs[ret.this], name) # component
              /\ \E k \in 1..Len(regs[ret.this].collections) :
                    /\ regs[ret.this].collections[k][2] # ret.registry
                    /\ getComponent(regs[regs[ret.this].collections[k][2]], name) = component
                    /\ \E j \in 1..Len(log) : log[j].inst = component

C2_RootCollectionsAreSubdirs ==
    (AssembledDir /\ ret.parent = NoRegistry /\ ret.cwd = ProcessCwd) =>
        /\ ~ret.threw
        /\ Range(getCollectionNames(Built)) = SubdirNames(ret.dir)
        /\ \A i \in 1..Len(Built.collections) :
              LET child == regs[Built.collections[i][2]]
              IN  /\ child.collections = <<>>
                  /\ MapKeys(child.components)
                        = NamesBelow(PathJoin(ret.dir, Built.collections[i][1]))

(***************************************************************************)
(* C3 (code_bug).  Flat build under a parent: assemble(parent, root) with   *)
(* a non-null parent returns one registry with no collections whose        *)
(* component map holds the components found in files at every depth below  *)
(* root, one per name, and the parent is left as it was.                   *)
(***************************************************************************)
C3_FlatBuildHoldsEveryComponent ==
    [][(ret'.op = "assemble" /\ ret'.parent # NoRegistry /\ existsSync(fs, ret'.dir)) =>
          /\ ~ret'.threw
          /\ regs'[ret'.out].collections = <<>>
          /\ MapKeys(regs'[ret'.out].components) = NamesBelow(ret'.dir)
          /\ regs'[ret'.parent] = regs[ret'.parent]]_vars

(***************************************************************************)
(* C6 (code_bug).  Resilience to module load failure: in a scan, a file     *)
(* whose loading raises an error is logged and contributes nothing, no     *)
(* fault reaches the caller, and the registry (with its collections) holds *)
(* exactly the components of the files that loaded successfully.           *)
(***************************************************************************)
C6_OnlyFailedLoadsAreLost ==
    AssembledDir =>
        /\ ~ret.threw
        /\ \A i \in 1..Len(ret.loads) :
              fs[ret.loads[i]].mod.throws =>
                  \E j \in 1..Len(log) : log[j].level = "error" /\ log[j].path = ret.loads[i]
        /\ MapKeys(Built.components)
              \cup UNION {MapKeys(c.components) : c \in ChildrenOf(Built)}
           = UNION {NamesOf(Yields(fs[ret.loads[i]].mod)) : i \in 1..Len(ret.loads)}

(***************************************************************************)
(* C7 (confirmed).  A missing component directory is not fatal: assemble    *)
(* logs an error, raises nothing and returns a registry with no component  *)
(* and no collection, for which isValid() is false; and isValid() is true  *)
(* of a registry exactly when it has a component or a collection.          *)
(***************************************************************************)
C7_MissingDirectoryIsNotFatal ==
    /\ (ret.op = "assemble" /\ ~existsSync(fs, ret.dir)) =>
          /\ ~ret.threw
          /\ ret.out \in DOMAIN regs
          /\ \E j \in 1..Len(log) :
                log[j].level = "error" /\ log[j].msg = "Invalid component directory"
          /\ Built.components = <<>>
          /\ Built.collections = <<>>
          /\ ~isValid(Built)
    /\ \A i \in DOMAIN regs :
          isValid(regs[i]) <=> (Len(regs[i].components) >= 1 \/ Len(regs[i].collections) >= 1)

\* a missing directory was assembled, after a registry with collections and
\* no component of its own was built
C7_Witness ==
    /\ ret.op = "assemble" /\ ~existsSync(fs, ret.dir) /\ ~ret.threw
    /\ \E i \in DOMAIN regs : regs[i].components = <<>> /\ regs[i].collections # <<>>

\* what a call of getMetadata would return now: the descriptors' values
MetadataNow(rs, ds, this, collection) ==
    LET registry == getRegistry(rs, this, collection)
    IN  IF registry = NoRegistry THEN <<>>
        ELSE [i \in 1..Len(getComponents(rs[registry])) |->
                 [name |-> ds[getComponents(rs[registry])[i][2].inst].name,
                  supportedActions |->
                      ds[getComponents(rs[registry])[i][2].inst].supportedActions]]

\* the values a caller reads in the array it holds
HeldValues(ds, h) ==
    [i \in 1..Len(h) |-> [name |-> NameIn(ds, h[i]),
                          supportedActions |-> ActionsIn(ds, h[i])]]

IsLookup(r) == r.op \in {"getRegistry", "getMetadata"}

\* what C8 asks of a lookup with an unknown name, and with no name
UnknownNameAnswer ==
    /\ ~ret'.threw
    /\ regs' = regs
    /\ ret'.op = "getRegistry" => ret'.out = NoRegistry
    /\ ret'.op = "getMetadata" =>
          /\ held' = <<>>
          /\ \E j \in 1..Len(log') : log'[j].level = "error"

NodeItselfAnswer ==
    /\ ~ret'.threw
    /\ regs' = regs
    /\ ret'.op = "getRegistry" => ret'.out = ret'.this
    /\ ret'.op = "getMetadata" =>
          /\ HeldValues(descs', held') = MetadataNow(regs, descs, ret'.this, NoName)
          /\ Len(held') = Len(getComponents(regs[ret'.this]))
          /\ log' = <<>>

(***************************************************************************)
(* C8 (corrected).  Unknown collection lookups.  The claim as made: for     *)
(* every name that is not a collection name of the registry,               *)
(* getRegistry(name) returns nothing and getMetadata(name) returns an      *)
(* empty sequence and logs an error; neither raises, neither changes the   *)
(* registry; with no name given both operate on the node itself.           *)
(***************************************************************************)
C8_UnknownNameIsAbsent ==
    [][IsLookup(ret') =>
          /\ (ret'.collection.given /\ ~isCollection(regs[ret'.this], ret'.collection.name))
                => UnknownNameAnswer
          /\ ~ret'.collection.given => NodeItselfAnswer]_vars

(***************************************************************************)
(* C8 as amended: for every non-empty name that is not a collection name   *)
(* of the registry, getRegistry(name) returns nothing and                  *)
(* getMetadata(name) returns an empty sequence and logs an error; neither  *)
(* raises, neither changes the registry; with no name given, and with the  *)
(* empty string, both operate on the node itself.                          *)
(***************************************************************************)
C8_UnknownNonEmptyNameIsAbsent ==
    [][IsLookup(ret') =>
          /\ (Truthy(ret'.collection) /\ ~isCollection(regs[ret'.this], ret'.collection.name))
                => UnknownNameAnswer
          /\ ~Truthy(ret'.collection) => NodeItselfAnswer]_vars

\* getMetadata with an unknown name, on a node that has components
C8_Witness ==
    /\ ret.op = "getMetadata"
    /\ ret.collection = Named(<<"q">>)
    /\ getComponents(regs[ret.this]) # <<>>
    /\ held = <<>>
    /\ log # <<>>

(***************************************************************************)
(* C9 (corrected).  Metadata isolation.  The claim as made: whatever a      *)
(* caller writes through the array getMetadata() returned (to the array,   *)
(* to an element, to what an element holds) changes neither the result of  *)
(* a later getMetadata() call nor the descriptor a component keeps.        *)
(***************************************************************************)
C9_ReturnedValueIsIsolated ==
    [][ret'.op = "mutate" =>
          /\ descs' = descs
          /\ \A this \in DOMAIN regs, collection \in CollectionArgs :
                MetadataNow(regs', descs', this, collection)
                    = MetadataNow(regs, descs, this, collection)]_vars

(***************************************************************************)
(* C9 as amended: writing to the array getMetadata() returned, or to a     *)
(* property of one of its elements, changes neither the result of a later  *)
(* getMetadata() call nor the descriptor a component keeps.  (The copies   *)
(* are shallow: an object held in a property of a descriptor is shared,    *)
(* and can be written to through the returned value.)                      *)
(***************************************************************************)
C9_ElementsAreCopies ==
    [][(ret'.op = "mutate" /\ ret'.kind \in {"name", "sequence"}) =>
          /\ descs' = descs
          /\ \A this \in DOMAIN regs, collection \in CollectionArgs :
                MetadataNow(regs', descs', this, collection)
                    = MetadataNow(regs, descs, this, collection)]_vars

\* the caller renamed the element of a component that keeps its descriptor,
\* and the descriptor kept its name
C9_Witness ==
    /\ ret.op = "mutate" /\ ret.kind = "name"
    /\ KeepsDescriptor(held[ret.index].src)
    /\ NameIn(descs, held[ret.index]) = "hacked"
    /\ descs[held[ret.index].src].name # "hacked"

(***************************************************************************)
(* C10 (code_bug).  The Capability Test is total: for every loaded value    *)
(* it returns a boolean without raising an error, true exactly for the     *)
(* values that qualify.  The code reads a member of null, and of the       *)
(* missing prototype of an arrow function, and raises a TypeError.         *)
(***************************************************************************)
C10_CapabilityTestIsTotal ==
    ret.op = "isComponent" =>
        /\ ~ret.res.threw
        /\ ret.res.value = Qualifies(arg)

\* Module Resolver (spec 4.4): the values a loaded module yields, in order.
\* A function is an object too: its own properties are looked at when it
\* does not itself pass the test.
YieldsInOrder(mod) ==
    IF mod.throws THEN <<>>
    ELSE IF Qualifies(mod.exports) THEN <<mod.exports>>
    ELSE IF mod.exports.t \in {"object", "function"} /\ ~mod.exports.nul
         THEN SelectSeq(MapValues(mod.exports.own), Qualifies)
    ELSE <<>>

(***************************************************************************)
(* C11 (code bug, through C10).  Module Resolver extraction: for every     *)
(* module that loaded, the resolver yields the exported value alone when   *)
(* it passes the Capability Test, else the property values of an exported  *)
(* object that pass it, else nothing; the registry assembled from the      *)
(* module's directory holds what was yielded, and a module exporting two   *)
(* components and one other value gives exactly 2 registered components.   *)
(* Violated: a property value of null, or an arrow function, makes the     *)
(* capability test throw, and the file then yields nothing.                *)
(***************************************************************************)
C11_ResolverYieldsQualifyingValues ==
    /\ (ret.op = "resolve" /\ ~fs[ret.path].mod.throws)
          => ret.out = YieldsInOrder(fs[ret.path].mod)
    /\ (ret.op = "assemble" /\ ~fs[ModulePath].mod.throws)
          => /\ ~ret.threw
             /\ MapKeys(Built.components) = NamesOf(Range(YieldsInOrder(fs[ModulePath].mod)))
             /\ fs[ModulePath].mod = Exports(MultiExport) => Len(Built.components) = 2

\* p starts with the text of dir
HasPrefix(p, dir) == Len(p) >= Len(dir) /\ SubSeq(p, 1, Len(dir)) = dir

\* Explicit-list construction (spec 4.2): the file or directory a path
\* string stands for, with the extension supplied when it was left out
TargetOf(text, baseDir) ==
    LET p == PathResolve(IF HasPrefix(text, baseDir) THEN text ELSE PathJoin(baseDir, text))
    IN  IF p \in DOMAIN fs THEN p ELSE p \o <<".", "j", "s">>

\* the component references an item stands for
ItemRefs(item, baseDir) ==
    IF item.kind = "path"
    THEN LET p == TargetOf(item.text, baseDir)
         IN  IF p \notin DOMAIN fs THEN {}
             ELSE IF fs[p].kind = "dir"
                  THEN UNION {Range(YieldsInOrder(fs[q].mod)) : q \in ModuleFilesBelow(p)}
             ELSE Range(YieldsInOrder(fs[p].mod))
    ELSE Range(YieldsInOrder(Exports(item.value)))

\* the first item of the list that provides a component named n
FirstProvider(list, baseDir, n) ==
    CHOOSE i \in 1..Len(list) :
        /\ n \in NamesOf(ItemRefs(list[i], baseDir))
        /\ \A j \in 1..(i - 1) : n \notin NamesOf(ItemRefs(list[j], baseDir))

(***************************************************************************)
(* C12 (code bug, through C10).  Explicit-list construction: for every     *)
(* list, create(list, base) returns one new registry with no collections   *)
(* (a directory reached by a path is flattened); its component names are   *)
(* those the items provide, each bound to a component of the first item    *)
(* of the list that provides the name; an item of another shape provides   *)
(* nothing and raises no error.  Violated: a null item, or an item that    *)
(* is a function without a prototype, makes create throw.                  *)
(***************************************************************************)
C12_CreateRegistersItemsInOrder ==
    ret.op = "create" =>
        /\ ~ret.threw
        /\ Len(regs) = 1
        /\ Built.collections = <<>>
        /\ MapKeys(Built.components)
              = UNION {NamesOf(ItemRefs(ret.list[i], ret.cwd)) : i \in 1..Len(ret.list)}
        /\ \A n \in MapKeys(Built.components) :
              getComponent(Built, n).inst
                  \in {v.id : v \in {w \in ItemRefs(ret.list[FirstProvider(ret.list, ret.cwd, n)],
                                                    ret.cwd) :
                                        InitialDescs[w.id].name = n}}

(***************************************************************************)
(* C16 (code bug).  Path resolution in create: a path string is used       *)
(* unchanged when it starts with the base directory and is joined onto     *)
(* the base directory otherwise, also when it holds the text of the base   *)
(* directory somewhere past its start.  Violated: fullPath looks for the   *)
(* base directory anywhere in the string.                                  *)
(***************************************************************************)
C16_PathJoinedUnlessUnderBase ==
    ret.op = "create" =>
        \A i \in 1..Len(ret.resolved) :
            LET text == PathsOf(ret.list)[i].text
            IN  ret.resolved[i] = IF HasPrefix(text, ret.cwd) THEN text
                                  ELSE PathJoin(ret.cwd, text)

\* the directory that holds p
ParentDir(p) ==
    LET cuts == {i \in 1..Len(p) : p[i] = "/"}
    IN  SubSeq(p, 1, (CHOOSE i \in cuts : \A j \in cuts : j <= i) - 1)

\* the components registered under name n by the load of module file p
ProvidedBy(p, n) == {v.id : v \in {w \in Range(YieldsInOrder(fs[p].mod)) : InitialDescs[w.id].name = n}}

(***************************************************************************)
(* C13 (code bug).  Files before directories: in every scan, whatever the  *)
(* order in which the system lists a directory, the module files of that   *)
(* directory are loaded before any file below one of its subdirectories;   *)
(* and in a flat scan, a name provided both by a file of the scanned       *)
(* directory and by a file below one of its subdirectories is bound to     *)
(* the component of the former.  Violated: the comparator of the sort      *)
(* never answers a negative number, and a sort that leaves such an array   *)
(* as it is processes a directory listed before a file first.              *)
(***************************************************************************)
C13_FilesBeforeDirectories ==
    (ret.op = "assemble" /\ ~ret.threw) =>
        /\ \A i \in 1..Len(ret.loads), j \in 1..Len(ret.loads) :
              (/\ IsBelow(ParentDir(ret.loads[i]), ret.loads[j])
               /\ ParentDir(ret.loads[j]) # ParentDir(ret.loads[i]))
                  => i < j
        /\ (ret.parent # NoRegistry /\ existsSync(fs, ret.dir)) =>
              \A p \in ModuleFilesBelow(ret.dir), q \in ModuleFilesBelow(ret.dir) :
                  \A n \in MapKeys(Built.components) :
                      (/\ ParentDir(p) = ret.dir /\ ParentDir(q) # ret.dir
                       /\ ProvidedBy(p, n) # {} /\ ProvidedBy(q, n) # {})
                          => getComponent(Built, n).inst \in ProvidedBy(p, n)

\* a step that registers or merges
IsWrite(r) == r.op \in {"register", "merge"}

(***************************************************************************)
(* C14 (confirmed).  Monotonic registry: in every step (a registration, a  *)
(* merge, the construction of a further registry) every registry that      *)
(* exists stays, keeps every component name and every collection name it   *)
(* has, and keeps each name bound to the component, and each collection    *)
(* name to the registry, it was bound to.                                  *)
(***************************************************************************)
C14_BindingsNeverChange ==
    [][\A n \in DOMAIN regs :
          /\ n \in DOMAIN regs'
          /\ MapKeys(regs[n].components) \subseteq MapKeys(regs'[n].components)
          /\ MapKeys(regs[n].collections) \subseteq MapKeys(regs'[n].collections)
          /\ \A name \in MapKeys(regs[n].components) :
                getComponent(regs'[n], name) = getComponent(regs[n], name)
          /\ \A name \in MapKeys(regs[n].collections) :
                MapGet(regs'[n].collections, name, NoRegistry)
                    = MapGet(regs[n].collections, name, NoRegistry)]_vars

\* after a registration or merge that followed an earlier merge which wrote:
\* the call was offered a component under a name already bound to another
\* one, and rejected it
C14_Witness ==
    /\ IsWrite(ret)
    /\ ret.prev # <<>> /\ ret.prev[4] # {}
    /\ \E j \in 1..Len(log) :
          /\ log[j].level = "warn"
          /\ \E n \in DOMAIN regs :
                /\ hasComponent(regs[n], log[j].name)
                /\ getComponent(regs[n], log[j].name) # log[j].inst

(***************************************************************************)
(* C17 (confirmed).  Recursive merge is per node: in every step            *)
(* A.merge(B, true), for every child collection c that A has when the call *)
(* is made and every name n of B's own map, c.getComponent(n) afterwards   *)
(* is the component c held under n before the call if it held one, and    *)
(* B's component otherwise, both when A itself took B's component and      *)
(* when A rejected it as a duplicate.                                      *)
(***************************************************************************)
C17_ChildrenDecideForThemselves ==
    [][(ret'.op = "merge" /\ ret'.recursive /\ nops' = nops + 1) =>
          \A k \in 1..Len(regs[ret'.this].collections) :
              \A name \in MapKeys(getComponents(regs[ret'.registry])) :
                  LET c == regs[ret'.this].collections[k][2]
                      accepted == getComponent(regs'[ret'.this], name)
                                      = getComponent(regs[ret'.registry], name)
                      expected == IF hasComponent(regs[c], name)
                                  THEN getComponent(regs[c], name)
                                  ELSE getComponent(regs[ret'.registry], name)
                  IN  /\ accepted => getComponent(regs'[c], name) = expected
                      /\ ~accepted => getComponent(regs'[c], name) = expected]_vars

\* a recursive merge in which A took nothing (every name of B was bound in A
\* to another component) and a child collection of A was written to
C17_Witness ==
    /\ ret.op = "merge" /\ ret.recursive
    /\ ret.this # ret.registry
    /\ getComponents(regs[ret.registry]) # <<>>
    /\ \A name \in MapKeys(getComponents(regs[ret.registry])) :
          /\ hasComponent(regs[ret.this], name)
          /\ getComponent(regs[ret.this], name) # getComponent(regs[ret.registry], name)
    /\ ret.this \notin ret.wrote
    /\ \E k \in 1..Len(regs[ret.this].collections) :
          regs[ret.this].collections[k][2] \in ret.wrote

(***************************************************************************)
(* C18 (confirmed).  Merge is idempotent: a call A.merge(B, r) that        *)
(* repeats the call made just before it changes no registry, so A and its  *)
(* child collections are as one call left them; and A.merge(A, r) on a     *)
(* node without child collections changes no registry.                     *)
(***************************************************************************)
C18_MergeIsIdempotent ==
    [][(ret'.op = "merge" /\ nops' = nops + 1) =>
          /\ (/\ ret.op = "merge"
              /\ ret'.this = ret.this
              /\ ret'.registry = ret.registry
              /\ ret'.recursive = ret.recursive) => regs' = regs
          /\ (/\ ret'.this = ret'.registry
              /\ regs[ret'.this].collections = <<>>) => regs' = regs]_vars

\* the second of two equal merge calls, the first of which wrote to A and to
\* a child collection of A
C18_Witness ==
    /\ ret.op = "merge"
    /\ ret.prev # <<>>
    /\ ret.prev = <<ret.this, ret.registry, ret.recursive, ret.prev[4]>>
    /\ ret.this \in ret.prev[4]
    /\ \E k \in 1..Len(regs[ret.this].collections) :
          regs[ret.this].collections[k][2] \in ret.prev[4]
    /\ ret.wrote = {}

\* node n holds a component under name in its own map, and which ones
OwnEntries(n, name) == {e \in Range(regs[n].components) : e[1] = name}

\* the node this.getMetadata(collection) reads: the node itself when no
\* name (or the empty one) is given, else the child collection of that name
ConsultedNode(this, collection) ==
    IF ~Truthy(collection) THEN {this}
    ELSE {e[2] : e \in {c \in Range(regs[this].collections) : c[1] = collection.name}}

TruthyKinds == {"true", "one", "text", "object"}
\* the place of a layer's key in the fixed order
Rank(key) == CASE key = "auth" -> 1 [] key = "parser" -> 2 [] OTHER -> 3

(***************************************************************************)
(* C19 (confirmed).  Middleware.init applies the layer of a key (auth,     *)
(* parser, component) to the router it returns if and only if the key is   *)
(* in the options with a truthy value, each layer at most once, in the     *)
(* order auth, parser, component; with no options, or empty ones, the      *)
(* router has no layer.                                                    *)
(***************************************************************************)
C19_LayersFollowOptions ==
    ret.op = "init" =>
        /\ \A key \in {"auth", "parser", "component"} :
              /\ (\E i \in 1..Len(ret.out) : ret.out[i].key = key)
                    <=> ret.options[key] \in TruthyKinds
              /\ Cardinality({i \in 1..Len(ret.out) : ret.out[i].key = key}) <= 1
        /\ \A i \in 1..Len(ret.out), j \in 1..Len(ret.out) :
              i < j => Rank(ret.out[i].key) < Rank(ret.out[j].key)
        /\ (\A key \in {"auth", "parser", "component"} : ret.options[key] = "absent")
              => ret.out = <<>>

\* init with a falsy auth value, a parser and a component configuration:
\* two layers, parser then component
C19_Witness ==
    /\ ret.op = "init"
    /\ ret.options.auth = "zero"
    /\ ret.options.parser = "object"
    /\ ret.options.component = "object"
    /\ Len(ret.out) = 2
    /\ ret.out[1].key = "parser" /\ ret.out[2].key = "component"

====
